---- MODULE Spec2Model ----
(***************************************************************************)
(* chacra/models/binaries.py: the Binary model (an artifact record), its   *)
(* find-or-create of a Repo (a grouping record) and the two mapper         *)
(* listeners, generate_checksum and update_timestamp, that run before      *)
(* every insert and update.                                                *)
(*                                                                         *)
(* Each request handler has a session of its own.  A request constructs a  *)
(* Binary (Binary.__init__) or loads one and applies update_from_json, and *)
(* then writes: the listeners run in the order of their registration, the  *)
(* row is written and the transaction commits, or an exception of a        *)
(* listener or of the database rolls the transaction back.  Rows of other  *)
(* sessions are seen once they are committed.                              *)
(*                                                                         *)
(* None is encoded per column type: None for a string, NoneInt for an      *)
(* integer, NoneDigest for a checksum, NoRepo for a relationship.          *)
(***************************************************************************)
EXTENDS Integers, Sequences, FiniteSets, TLC

VARIABLES binaries, repos, files, now, sess

vars == <<binaries, repos, files, now, sess>>

(* ------------------------------ bounds -------------------------------- *)

\* committed plus in-flight Binary rows, under Spec and under SpecRepo
MaxBinaries == 1
MaxRepoBinaries == 2
\* the clock (utcnow) runs over 0..MaxClock
MaxClock == 1

(* --------------------------- value domains ---------------------------- *)

Procs == {"w1", "w2"}

None == "None"
NoneInt == 0 - 1
NoneDigest == <<>>
NoneId == 0

Names == {"ceph.deb"}
Projects == {"P1"}
FilePaths == {"/a", "/b"}
\* the paths whose file the environment rewrites
ChangingPaths == {"/a"}
\* the content of a path that open() or read() fails on (no byte is negative)
Unreadable == <<0 - 1>>
Contents == {<<1>>, <<2, 1>>}

NoRepo == [id |-> NoneId, project |-> None, ref |-> None,
           distro |-> None, distro_version |-> None]

(* ------------------------------ Binary -------------------------------- *)

\* Binary.allowed_keys
allowed_keys == <<"path", "distro", "distro_version", "arch", "ref",
                  "built_by", "size">>

\* A mapped instance before __init__ ran: every column attribute reads None.
BinaryColumns ==
    [id |-> NoneId, name |-> None, path |-> None, ref |-> None,
     distro |-> None, distro_version |-> None, arch |-> None,
     built_by |-> None, created |-> NoneInt, modified |-> NoneInt,
     signed |-> None, size |-> NoneInt, checksum |-> NoneDigest,
     project |-> None, repo |-> NoRepo]

\* setattr(self, key, value)
setattr(self, key, value) == [self EXCEPT ![key] = value]

\* for key in self.allowed_keys: if key in kw.keys(): setattr(self, key, kw[key])
RECURSIVE ApplyAllowed(_, _, _)
ApplyAllowed(self, kw, i) ==
    IF i > Len(allowed_keys) THEN self
    ELSE LET key == allowed_keys[i]
         IN  ApplyAllowed(IF key \in DOMAIN kw THEN setattr(self, key, kw[key])
                          ELSE self,
                          kw, i + 1)

\* Python truthiness of a string attribute: None and "" are falsy.
Truthy(s) == s /= None /\ s /= ""

\* the 'dirty' flag of an instance: some attribute was assigned
AnyAssigned(data) == \E i \in 1..Len(allowed_keys) : allowed_keys[i] \in DOMAIN data

\* mutant: every key of the payload that names an attribute is assigned
update_from_json_AnyKey(self, data) ==
    [f \in DOMAIN self |-> IF f \in DOMAIN data THEN data[f] ELSE self[f]]

\* Binary.update_from_json
update_from_json(self, data) == ApplyAllowed(self, data, 1)

\* nullable=False columns of the binaries table
NotNullColumns == {"name", "distro", "distro_version", "arch"}

\* mutant: arch is nullable
IntegrityOK_ArchNullable(self) == \A c \in NotNullColumns \ {"arch"} : self[c] /= None

\* the INSERT or UPDATE of a row is refused when a nullable=False column is NULL
IntegrityOK(self) == \A c \in NotNullColumns : self[c] /= None

\* Column(..., default=...): applied by the INSERT to an attribute left None
InsertDefaults(self) ==
    [self EXCEPT !.signed = IF self.signed = None THEN "False" ELSE @,
                 !.size = IF self.size = NoneInt THEN 0 ELSE @]

\* util.last_seen(last): the rendering of an instant relative to the present
last_seen(last) == <<"ago", now - last>>

\* mutant: the comparison of last_changed the other way round
last_changed_Oldest(self) ==
    IF self.modified < self.created
    THEN last_seen(self.modified)
    ELSE last_seen(self.created)

\* Binary.last_changed
last_changed(self) ==
    IF self.modified > self.created
    THEN last_seen(self.modified)
    ELSE last_seen(self.created)

\* Binary.__json__
__json__(self) ==
    [name |-> self.name, created |-> self.created, modified |-> self.modified,
     signed |-> self.signed, size |-> self.size, path |-> self.path,
     last_changed |-> last_changed(self), built_by |-> self.built_by,
     distro |-> self.distro, distro_version |-> self.distro_version,
     checksum |-> self.checksum, arch |-> self.arch, ref |-> self.ref]

(* ------------------------------- Repo --------------------------------- *)

\* Repo(project, ref, distro, distro_version)
Repo(project, ref, distro, distro_version) ==
    [id |-> NoneId, project |-> project, ref |-> ref,
     distro |-> distro, distro_version |-> distro_version]

\* mutant: the query filters on the project alone
RepoQuery_ProjectOnly(self) == {r \in repos : r.project = self.project}

\* mutant: the query does not filter on ref
RepoQuery_NoRef(self) ==
    {r \in repos : /\ r.distro = self.distro
                   /\ r.distro_version = self.distro_version
                   /\ r.project = self.project}

\* Repo.query.filter_by(ref=, distro=, distro_version=, project=)
RepoQuery(self) ==
    {r \in repos : /\ r.ref = self.ref
                   /\ r.distro = self.distro
                   /\ r.distro_version = self.distro_version
                   /\ r.project = self.project}

(* ----------------------------- listeners ------------------------------ *)

\* hashlib.sha512(): the state is the bytes absorbed so far
sha512_new == <<>>
sha512_update(chsum, chunk) == chsum \o chunk
sha512_hexdigest(chsum) == <<512>> \o chsum

\* f.read(4096)
ChunkSize == 4096
ReadChunk(content, pos) ==
    SubSeq(content, pos + 1,
           IF pos + ChunkSize < Len(content) THEN pos + ChunkSize ELSE Len(content))

\* for chunk in iter(lambda: f.read(4096), ""): chsum.update(chunk)
RECURSIVE ReadAll(_, _, _)
ReadAll(content, pos, chsum) ==
    LET chunk == ReadChunk(content, pos)
    IN  IF chunk = <<>> THEN chsum
        ELSE ReadAll(content, pos + Len(chunk), sha512_update(chsum, chunk))

\* try: target.path / except AttributeError: a mapped column attribute
\* always resolves (to None when never assigned)
PathRaisesAttributeError(target) == FALSE

\* mutant: a checksum once computed is kept
generate_checksum_KeepsOld(target) ==
    IF ~Truthy(target.path) \/ target.checksum /= NoneDigest
    THEN [raised |-> FALSE, target |-> target]
    ELSE IF files[target.path] = Unreadable
    THEN [raised |-> TRUE, target |-> target]
    ELSE [raised |-> FALSE,
          target |-> [target EXCEPT !.checksum =
                         sha512_hexdigest(ReadAll(files[target.path], 0, sha512_new))]]

\* mutant: the IOError of open() is swallowed
generate_checksum_Swallows(target) ==
    IF ~Truthy(target.path) \/ files[target.path] = Unreadable
    THEN [raised |-> FALSE, target |-> target]
    ELSE [raised |-> FALSE,
          target |-> [target EXCEPT !.checksum =
                         sha512_hexdigest(ReadAll(files[target.path], 0, sha512_new))]]

\* mutant: no 'if not target.path: return'; open(None) raises
generate_checksum_NoGuard(target) ==
    IF target.path \notin FilePaths \/ files[target.path] = Unreadable
    THEN [raised |-> TRUE, target |-> target]
    ELSE [raised |-> FALSE,
          target |-> [target EXCEPT !.checksum =
                         sha512_hexdigest(ReadAll(files[target.path], 0, sha512_new))]]

\* mutant: a falsy path clears the checksum
generate_checksum_ClearsOnFalsy(target) ==
    IF ~Truthy(target.path)
    THEN [raised |-> FALSE, target |-> [target EXCEPT !.checksum = NoneDigest]]
    ELSE IF files[target.path] = Unreadable
    THEN [raised |-> TRUE, target |-> target]
    ELSE [raised |-> FALSE,
          target |-> [target EXCEPT !.checksum =
                         sha512_hexdigest(ReadAll(files[target.path], 0, sha512_new))]]

\* generate_checksum(mapper, connection, target): the target it leaves, and
\* whether open() raised
generate_checksum(target) ==
    IF PathRaisesAttributeError(target)
    THEN [raised |-> FALSE, target |-> [target EXCEPT !.checksum = NoneDigest]]
    ELSE IF ~Truthy(target.path)
    THEN [raised |-> FALSE, target |-> target]
    ELSE IF target.path \notin FilePaths \/ files[target.path] = Unreadable
    THEN [raised |-> TRUE, target |-> target]
    ELSE [raised |-> FALSE,
          target |-> [target EXCEPT !.checksum =
                         sha512_hexdigest(ReadAll(files[target.path], 0, sha512_new))]]

\* mutant: the listener stamps created
update_timestamp_Created(target) == [target EXCEPT !.created = now]

\* mutant: the listener leaves modified
update_timestamp_Nothing(target) == target

\* mutant: modified is stamped only while it is unset
update_timestamp_WhenUnset(target) ==
    IF target.modified = NoneInt THEN [target EXCEPT !.modified = now] ELSE target

\* update_timestamp(mapper, connection, target)
update_timestamp(target) == [target EXCEPT !.modified = now]

(* ------------------------------ sessions ------------------------------ *)

IdleSession == [pc |-> "idle", op |-> "none", target |-> BinaryColumns,
                loaded |-> BinaryColumns, found |-> NoRepo, override |-> FALSE, dirty |-> FALSE,
                err |-> "", given |-> NoRepo, data |-> [k \in {} |-> None],
                out |-> [k \in {} |-> None]]

InFlightInserts ==
    Cardinality({p \in Procs : /\ sess[p].op = "insert"
                               /\ sess[p].pc \notin {"idle", "committed", "aborted"}})

\* the row of an instance (repo_id in place of the relationship) and back
ToRow(self) ==
    [id |-> self.id, name |-> self.name, path |-> self.path, ref |-> self.ref,
     distro |-> self.distro, distro_version |-> self.distro_version,
     arch |-> self.arch, built_by |-> self.built_by, created |-> self.created,
     modified |-> self.modified, signed |-> self.signed, size |-> self.size,
     checksum |-> self.checksum, project |-> self.project,
     repo_id |-> self.repo.id]

Load(row) ==
    [id |-> row.id, name |-> row.name, path |-> row.path, ref |-> row.ref,
     distro |-> row.distro, distro_version |-> row.distro_version,
     arch |-> row.arch, built_by |-> row.built_by, created |-> row.created,
     modified |-> row.modified, signed |-> row.signed, size |-> row.size,
     checksum |-> row.checksum, project |-> row.project,
     repo |-> CHOOSE r \in repos : r.id = row.repo_id]

(* ------------------------------ actions ------------------------------- *)

Init ==
    /\ binaries = {}
    /\ repos = {}
    /\ files = [path \in FilePaths |-> IF path = "/a" THEN <<1>> ELSE <<2, 1>>]
    /\ now = 0
    /\ sess = [p \in Procs |-> IdleSession]

\* Query.first(): any one of the rows matched, None when there is none
First(rows) == IF rows = {} THEN {NoRepo} ELSE rows

\* mutant: the arguments of Repo(...) in another order
get_or_create_repo_Swapped(self, found) ==
    IF found = NoRepo
    THEN Repo(self.project, self.distro, self.ref, self.distro_version)
    ELSE found

\* Binary._get_or_create_repo, given the row the query returned
get_or_create_repo(self, found) ==
    IF found = NoRepo
    THEN Repo(self.project, self.ref, self.distro, self.distro_version)
    ELSE found

\* mutant: the repo argument is ignored and the grouping is always resolved
BinaryInit_IgnoresOverride(p, name, project, repo, kw) ==
    /\ sess[p].pc = "idle"
    /\ LET self == ApplyAllowed([BinaryColumns EXCEPT !.name = name,
                                                      !.project = project,
                                                      !.created = now,
                                                      !.modified = now],
                                kw, 1)
       IN  \E found \in First(RepoQuery(self)) :
               sess' = [sess EXCEPT ![p] =
                          [IdleSession EXCEPT
                              !.pc = "pending", !.op = "insert",
                              !.dirty = TRUE, !.found = found, !.data = kw,
                              !.override = (repo /= NoRepo), !.given = repo,
                              !.target = [self EXCEPT !.repo =
                                             get_or_create_repo(self, found)]]]
    /\ UNCHANGED <<binaries, repos, files, now>>

\* Binary.__init__(name, project, repo, **kw): no write yet; the query is its
\* one read of the committed rows
BinaryInit(p, name, project, repo, kw) ==
    /\ sess[p].pc = "idle"
    /\ LET self == ApplyAllowed([BinaryColumns EXCEPT !.name = name,
                                                      !.project = project,
                                                      !.created = now,
                                                      !.modified = now],
                                kw, 1)
       IN  IF repo /= NoRepo
           THEN sess' = [sess EXCEPT ![p] =
                           [IdleSession EXCEPT !.pc = "pending", !.op = "insert",
                                               !.dirty = TRUE, !.override = TRUE,
                                               !.given = repo, !.data = kw,
                                               !.target = [self EXCEPT !.repo = repo]]]
           ELSE \E found \in First(RepoQuery(self)) :
                   sess' = [sess EXCEPT ![p] =
                              [IdleSession EXCEPT
                                  !.pc = "pending", !.op = "insert",
                                  !.dirty = TRUE, !.found = found, !.data = kw,
                                  !.target = [self EXCEPT !.repo =
                                                 get_or_create_repo(self, found)]]]
    /\ UNCHANGED <<binaries, repos, files, now>>

\* a request loads a committed Binary and applies update_from_json
UpdateFromJson(p, row, data) ==
    /\ sess[p].pc = "idle"
    /\ row \in binaries
    /\ sess' = [sess EXCEPT ![p] =
                  [IdleSession EXCEPT !.pc = "pending", !.op = "update",
                                      !.dirty = AnyAssigned(data),
                                      !.loaded = Load(row), !.data = data,
                                      !.target = update_from_json(Load(row), data)]]
    /\ UNCHANGED <<binaries, repos, files, now>>

\* a request loads a committed Binary and serializes it
Json(p, row) ==
    /\ sess[p].pc = "idle"
    /\ row \in binaries
    /\ sess' = [sess EXCEPT ![p] =
                  [IdleSession EXCEPT !.pc = "serialized", !.op = "json",
                                      !.loaded = Load(row), !.target = Load(row),
                                      !.out = __json__(Load(row))]]
    /\ UNCHANGED <<binaries, repos, files, now>>

\* a write with no instance to flush: no listener runs, nothing is written
FlushClean(p) ==
    /\ sess[p].pc = "pending"
    /\ ~sess[p].dirty
    /\ sess' = [sess EXCEPT ![p].pc = "committed"]
    /\ UNCHANGED <<binaries, repos, files, now>>

\* mutant: update_timestamp runs before generate_checksum
RunListeners_TimestampFirst(target) == generate_checksum(update_timestamp(target))

\* the listeners of before_insert / before_update in the order of their
\* registration: generate_checksum (listen, first), update_timestamp (second);
\* an exception of the first ends the flush
RunListeners(target) ==
    LET r == generate_checksum(target)
    IN  IF r.raised THEN r
        ELSE [raised |-> FALSE, target |-> update_timestamp(r.target)]

\* the flush of a new or dirty instance begins: before_insert / before_update
\* is dispatched for it
Flush(p) ==
    /\ sess[p].pc = "pending"
    /\ sess[p].dirty
    /\ sess' = [sess EXCEPT ![p].pc = "checksumming"]
    /\ UNCHANGED <<binaries, repos, files, now>>

\* mutant: a failed listener puts the write back to pending
Listeners_Retries(p) ==
    /\ sess[p].pc = "checksumming"
    /\ LET r == RunListeners(sess[p].target)
       IN  sess' = [sess EXCEPT ![p] =
                      IF r.raised
                      THEN [@ EXCEPT !.pc = "pending"]
                      ELSE [@ EXCEPT !.pc = "flushed", !.target = r.target]]
    /\ UNCHANGED <<binaries, repos, files, now>>

\* the listeners run, before the row is written
Listeners(p) ==
    /\ sess[p].pc = "checksumming"
    /\ LET r == RunListeners(sess[p].target)
       IN  sess' = [sess EXCEPT ![p] =
                      IF r.raised
                      THEN [@ EXCEPT !.pc = "aborted", !.err = "IOError",
                                     !.target = r.target]
                      ELSE [@ EXCEPT !.pc = "flushed", !.target = r.target]]
    /\ UNCHANGED <<binaries, repos, files, now>>

\* mutant: the write brings the Repo of the instance to the instance's tuple
WrittenRepo_Retuples(self) ==
    [id |-> IF self.repo.id = NoneId THEN Cardinality(repos) + 1 ELSE self.repo.id,
     project |-> self.project, ref |-> self.ref,
     distro |-> self.distro, distro_version |-> self.distro_version]

\* the rows the write of an instance leaves
WrittenRepo(self) ==
    IF self.repo.id = NoneId
    THEN [self.repo EXCEPT !.id = Cardinality(repos) + 1]
    ELSE self.repo

WrittenBinary(self, op) ==
    IF op = "insert"
    THEN [InsertDefaults(self) EXCEPT !.id = Cardinality(binaries) + 1,
                                      !.repo = WrittenRepo(self)]
    ELSE self

\* INSERT/UPDATE and COMMIT, or the rollback of an IntegrityError
Commit(p) ==
    /\ sess[p].pc = "flushed"
    /\ LET self == sess[p].target
           saved == WrittenBinary(self, sess[p].op)
       IN  IF IntegrityOK(self)
           THEN /\ repos' = repos \cup {saved.repo}
                /\ binaries' = {b \in binaries : b.id /= saved.id} \cup {ToRow(saved)}
                /\ sess' = [sess EXCEPT ![p].pc = "committed", ![p].target = saved]
           ELSE /\ sess' = [sess EXCEPT ![p].pc = "aborted",
                                        ![p].err = "IntegrityError"]
                /\ UNCHANGED <<binaries, repos>>
    /\ UNCHANGED <<files, now>>

\* the request ends and its session is discarded
Finish(p) ==
    /\ sess[p].pc \in {"committed", "aborted", "serialized"}
    /\ sess' = [sess EXCEPT ![p] = IdleSession]
    /\ UNCHANGED <<binaries, repos, files, now>>

\* datetime.datetime.utcnow() advances
Tick ==
    /\ now < MaxClock
    /\ now' = now + 1
    /\ UNCHANGED <<binaries, repos, files, sess>>

\* the file at a path is rewritten, removed or made unreadable
FileChange(path, content) ==
    /\ files[path] /= content
    /\ files' = [files EXCEPT ![path] = content]
    /\ UNCHANGED <<binaries, repos, now, sess>>

(* ------------------------------- inputs ------------------------------- *)

NoKw == [k \in {} |-> None]

ValidFields == ("distro" :> "ubuntu") @@ ("distro_version" :> "20.04") @@ ("arch" :> "amd64")

PathFields == {NoKw, "path" :> None, "path" :> "", "path" :> "/a", "path" :> "/b"}

\* one of distro, distro_version, arch left out, or given as ""
Without(kw, key) == [k \in DOMAIN kw \ {key} |-> kw[k]]
InvalidFields ==
    {Without(ValidFields, key) : key \in DOMAIN ValidFields}
    \cup {(key :> "") @@ ValidFields : key \in DOMAIN ValidFields}

\* Spec: one request at a time; the fields the listeners read vary
Writers == {"w1"}
CreateKws == {ValidFields @@ f : f \in PathFields}
UpdateDatas == (PathFields \ {NoKw}) \cup {"unknown" :> "x"}

Create(p) ==
    /\ Cardinality(binaries) + InFlightInserts < MaxBinaries
    /\ \E name \in Names, project \in Projects, kw \in CreateKws :
            BinaryInit(p, name, project, NoRepo, kw)

Update(p) ==
    \E row \in binaries, data \in UpdateDatas : UpdateFromJson(p, row, data)

Serialize(p) == \E row \in binaries : Json(p, row)

Environment ==
    \E path \in ChangingPaths, content \in Contents \cup {Unreadable} :
        FileChange(path, content)

Next ==
    \/ \E p \in Writers : Create(p)
    \/ \E p \in Writers : Update(p)
    \/ \E p \in Writers : Serialize(p)
    \/ \E p \in Writers : FlushClean(p)
    \/ \E p \in Writers : Flush(p)
    \/ \E p \in Writers : Listeners(p)
    \/ \E p \in Writers : Commit(p)
    \/ \E p \in Writers : Finish(p)
    \/ Tick
    \/ Environment

Spec == Init /\ [][Next]_vars

\* SpecRepo: concurrent requests; the grouping tuple varies, one component at
\* a time, no path is given and the clock stands still
RepoInputs ==
    {<<"P1", ValidFields>>,
     <<"P1", ("ref" :> "main") @@ ValidFields>>}
RepoDatas == {"ref" :> "main", "unknown" :> "x"}

CreateInRepo(p) ==
    /\ Cardinality(binaries) + InFlightInserts < MaxRepoBinaries
    /\ \E name \in Names, in \in RepoInputs, repo \in {NoRepo} \cup repos :
            BinaryInit(p, name, in[1], repo, in[2])

UpdateInRepo(p) ==
    \E row \in binaries, data \in RepoDatas : UpdateFromJson(p, row, data)

NextRepo ==
    \/ \E p \in Procs : CreateInRepo(p)
    \/ \E p \in Procs : UpdateInRepo(p)
    \/ \E p \in Procs : FlushClean(p)
    \/ \E p \in Procs : Flush(p)
    \/ \E p \in Procs : Listeners(p)
    \/ \E p \in Procs : Commit(p)
    \/ \E p \in Procs : Finish(p)

SpecRepo == Init /\ [][NextRepo]_vars

\* SpecFields: one request at a time; the nullable=False fields vary
FieldKws == {ValidFields} \cup InvalidFields
FieldDatas == {"distro" :> None, "arch" :> ""}

CreateInFields(p) ==
    /\ Cardinality(binaries) + InFlightInserts < MaxBinaries
    /\ \E name \in Names, project \in Projects, kw \in FieldKws :
            BinaryInit(p, name, project, NoRepo, kw)

UpdateInFields(p) ==
    \E row \in binaries, data \in FieldDatas : UpdateFromJson(p, row, data)

NextFields ==
    \/ \E p \in Writers : CreateInFields(p)
    \/ \E p \in Writers : UpdateInFields(p)
    \/ \E p \in Writers : Flush(p)
    \/ \E p \in Writers : Listeners(p)
    \/ \E p \in Writers : Commit(p)
    \/ \E p \in Writers : Finish(p)
    \/ Tick

SpecFields == Init /\ [][NextFields]_vars

\* SpecUpdate: one request at a time; the payloads of update_from_json mix
\* allowed keys, attributes outside the allow-list and unknown keys
PayloadKws == {ValidFields, ("ref" :> "main") @@ ValidFields}
PayloadDatas ==
    {"ref" :> "dev",
     "unknown" :> "x",
     ("distro_version" :> "22.04") @@ ("built_by" :> "jenkins"),
     ("name" :> "other.deb") @@ ("project" :> "P2") @@ ("created" :> 1)
         @@ ("distro" :> "centos") @@ ("size" :> 1)}

CreateInUpdate(p) ==
    /\ Cardinality(binaries) + InFlightInserts < MaxBinaries
    /\ \E name \in Names, project \in Projects, kw \in PayloadKws :
            BinaryInit(p, name, project, NoRepo, kw)

UpdateInUpdate(p) ==
    \E row \in binaries, data \in PayloadDatas : UpdateFromJson(p, row, data)

NextUpdate ==
    \/ \E p \in Writers : CreateInUpdate(p)
    \/ \E p \in Writers : UpdateInUpdate(p)
    \/ \E p \in Writers : FlushClean(p)
    \/ \E p \in Writers : Flush(p)
    \/ \E p \in Writers : Listeners(p)
    \/ \E p \in Writers : Commit(p)
    \/ \E p \in Writers : Finish(p)

SpecUpdate == Init /\ [][NextUpdate]_vars

\* SpecWrite: one request at a time, with the fairness of a synchronous
\* request (no step of a started write waits for ever); a write may carry a
\* path whose file becomes unreadable, miss a nullable=False field, or
\* assign nothing
WriteKws == {("path" :> "/a") @@ ValidFields, Without(ValidFields, "arch")}
WriteDatas == {"path" :> "/a", "unknown" :> "x"}

CreateInWrite(p) ==
    /\ Cardinality(binaries) + InFlightInserts < MaxBinaries
    /\ \E name \in Names, project \in Projects, kw \in WriteKws :
            BinaryInit(p, name, project, NoRepo, kw)

UpdateInWrite(p) ==
    \E row \in binaries, data \in WriteDatas : UpdateFromJson(p, row, data)

NextWrite ==
    \/ \E p \in Writers : CreateInWrite(p)
    \/ \E p \in Writers : UpdateInWrite(p)
    \/ \E p \in Writers : FlushClean(p)
    \/ \E p \in Writers : Flush(p)
    \/ \E p \in Writers : Listeners(p)
    \/ \E p \in Writers : Commit(p)
    \/ \E p \in Writers : Finish(p)
    \/ Tick
    \/ Environment

WriteFairness ==
    \A p \in Writers :
        /\ WF_vars(FlushClean(p))
        /\ WF_vars(Flush(p))
        /\ WF_vars(Listeners(p))
        /\ WF_vars(Commit(p))

SpecWrite == Init /\ [][NextWrite]_vars /\ WriteFairness

\* SpecTuple: one request at a time creates records whose (project, ref,
\* distro, distro_version) differ from the first input in one component each
TupleInputs ==
    {<<"P1", ValidFields>>,
     <<"P2", ValidFields>>,
     <<"P1", ("ref" :> "main") @@ ValidFields>>,
     <<"P1", ("distro" :> "centos") @@ ValidFields>>,
     <<"P1", ("distro_version" :> "22.04") @@ ValidFields>>}

CreateInTuple(p) ==
    /\ Cardinality(binaries) + InFlightInserts < MaxRepoBinaries
    /\ \E name \in Names, in \in TupleInputs :
            BinaryInit(p, name, in[1], NoRepo, in[2])

NextTuple ==
    \/ \E p \in Writers : CreateInTuple(p)
    \/ \E p \in Writers : Flush(p)
    \/ \E p \in Writers : Listeners(p)
    \/ \E p \in Writers : Commit(p)
    \/ \E p \in Writers : Finish(p)

SpecTuple == Init /\ [][NextTuple]_vars

(* ============================== claims ================================ *)

\* the grouping tuple of an instance or a Repo row
TupleOf(x) == <<x.project, x.ref, x.distro, x.distro_version>>
Grouped(x) == {r \in repos : TupleOf(r) = TupleOf(x)}

\* steps of one session
Constructs(p) == sess[p].pc = "idle" /\ sess'[p].pc = "pending" /\ sess'[p].op = "insert"
Flushes(p) == sess[p].pc = "checksumming" /\ sess'[p].pc = "flushed"
Commits(p) == sess[p].pc = "flushed" /\ sess'[p].pc = "committed"
Resolved(p) == sess[p].op = "insert" /\ ~sess[p].override

\* C1: two concurrent creations with the same (project, ref, distro,
\* distro_version), no override and no Grouping Record found by either, leave
\* exactly one Grouping Record for that tuple once both have committed.
C1_OneGroupingAfterConcurrentCreations ==
    \A p, q \in Procs :
        ( /\ p /= q
          /\ Resolved(p) /\ Resolved(q)
          /\ sess[p].pc = "committed" /\ sess[q].pc = "committed"
          /\ sess[p].found = NoRepo /\ sess[q].found = NoRepo
          /\ TupleOf(sess[p].target) = TupleOf(sess[q].target) )
        => Cardinality(Grouped(sess[p].target)) = 1

\* C2: a creation without override that starts when a Grouping Record of its
\* tuple is committed finds one of them, takes it as its grouping and stages
\* no new one; its commit adds one Artifact Record, whose grouping is the
\* record found, and no Grouping Record.
C2_ReusesExistingGrouping ==
    [][\A p \in Procs :
        /\ (Constructs(p) /\ ~sess'[p].override /\ Grouped(sess'[p].target) /= {})
             => /\ sess'[p].found \in Grouped(sess'[p].target)
                /\ sess'[p].target.repo = sess'[p].found
        /\ (Commits(p) /\ Resolved(p) /\ sess[p].found /= NoRepo)
             => /\ repos' = repos
                /\ Cardinality(binaries') = Cardinality(binaries) + 1
                /\ binaries \subseteq binaries'
                /\ \A b \in binaries' \ binaries :
                      /\ b.repo_id = sess[p].found.id
                      /\ sess[p].found \in repos
                      /\ TupleOf(sess[p].found) = TupleOf(b)]_vars

C2_Witness ==
    \E p \in Procs :
        /\ Resolved(p) /\ sess[p].pc = "committed"
        /\ sess[p].found /= NoRepo
        /\ Cardinality(binaries) = 2

\* C3: a creation without override that starts when no Grouping Record of its
\* tuple is committed stages a new one carrying its (project, ref, distro,
\* distro_version); its commit adds, in the one step, exactly one Artifact
\* Record and exactly one Grouping Record with that tuple, the grouping of
\* the new Artifact Record.
C3_CreatesOneGrouping ==
    [][\A p \in Procs :
        /\ (Constructs(p) /\ ~sess'[p].override /\ Grouped(sess'[p].target) = {})
             => /\ sess'[p].found = NoRepo
                /\ sess'[p].target.repo.id = NoneId
                /\ TupleOf(sess'[p].target.repo) = TupleOf(sess'[p].target)
        /\ (Commits(p) /\ Resolved(p) /\ sess[p].found = NoRepo)
             => /\ Cardinality(binaries') = Cardinality(binaries) + 1
                /\ Cardinality(repos') = Cardinality(repos) + 1
                /\ binaries \subseteq binaries' /\ repos \subseteq repos'
                /\ \A b \in binaries' \ binaries : \A r \in repos' \ repos :
                      /\ TupleOf(r) = TupleOf(b)
                      /\ TupleOf(b) = TupleOf(sess[p].target)
                      /\ b.repo_id = r.id]_vars

C3_Witness ==
    \E p \in Procs :
        /\ Resolved(p) /\ sess[p].pc = "committed"
        /\ sess[p].found = NoRepo
        /\ Cardinality(repos) = 2
        /\ \E r \in repos : r.id = sess[p].target.repo.id /\ r.ref = "main"

\* C4: every Artifact Record, committed or in a session, has
\* modified >= created: after construction, after the insert and after every
\* update (the clock never runs backwards).
C4_ModifiedNotBeforeCreated ==
    /\ \A b \in binaries : b.modified >= b.created
    /\ \A p \in Procs : sess[p].op /= "none"
                          => sess[p].target.modified >= sess[p].target.created

C4_Witness ==
    \E p \in Procs :
        /\ sess[p].op = "update" /\ sess[p].pc = "committed" /\ sess[p].dirty
        /\ \E b \in binaries : b.id = sess[p].target.id /\ b.modified > b.created

\* C5: a committed Artifact Record whose path is null has a null checksum.
C5_NoPathNoChecksum ==
    \A b \in binaries : b.path = None => b.checksum = NoneDigest

\* the digest of a file's whole content
Digest(content) == <<512>> \o content

\* C6: a flush of a record with a non-empty path leaves on it the digest of
\* the content the file at that path has at the flush, whatever checksum and
\* path it had before, and the commit stores that path and checksum.
C6_ChecksumOfCurrentPath ==
    [][\A p \in Procs :
        /\ (Flushes(p) /\ Truthy(sess[p].target.path))
             => /\ sess'[p].target.path = sess[p].target.path
                /\ sess'[p].target.checksum = Digest(files[sess[p].target.path])
        /\ Commits(p)
             => \E b \in binaries' :
                   /\ b.id = sess'[p].target.id
                   /\ b.path = sess[p].target.path
                   /\ b.checksum = sess[p].target.checksum]_vars

\* an update that moved the path from one file to another of other content
C6_Witness ==
    \E p \in Procs :
        /\ sess[p].op = "update" /\ sess[p].pc = "committed"
        /\ sess[p].loaded.path = "/a" /\ sess[p].target.path = "/b"
        /\ sess[p].loaded.checksum = Digest(<<1>>)
        /\ \E b \in binaries : b.path = "/b" /\ b.checksum = Digest(files["/b"])

\* C7: a flush of a record whose non-empty path cannot be read ends the write
\* with the IOError, and the step that aborts a write leaves the committed
\* Artifact and Grouping Records as they were; an aborted write commits
\* nothing afterwards.
C7_UnreadableAborts ==
    [][\A p \in Procs :
        /\ ( /\ sess[p].pc = "checksumming" /\ sess'[p] /= sess[p]
             /\ Truthy(sess[p].target.path)
             /\ files[sess[p].target.path] = Unreadable )
             => /\ sess'[p].pc = "aborted"
                /\ sess'[p].err = "IOError"
                /\ UNCHANGED <<binaries, repos>>
        /\ (sess[p].pc = "aborted" /\ sess'[p] /= sess[p])
             => /\ sess'[p].pc = "idle"
                /\ UNCHANGED <<binaries, repos>>]_vars

C7_Witness ==
    \E p \in Procs :
        /\ sess[p].op = "update" /\ sess[p].pc = "aborted" /\ sess[p].err = "IOError"
        /\ sess[p].loaded.path = "/b" /\ sess[p].target.path = "/a"
        /\ \E b \in binaries : b.id = sess[p].target.id /\ b = ToRow(sess[p].loaded)

\* distro, distro_version or arch is None / is None or ""
MissingRequired(self) ==
    self.distro = None \/ self.distro_version = None \/ self.arch = None
EmptyRequired(self) ==
    ~Truthy(self.distro) \/ ~Truthy(self.distro_version) \/ ~Truthy(self.arch)

C9_CreatedEqualsModified ==
    \A p \in Procs :
        (sess[p].op = "insert" /\ sess[p].pc = "committed"
            /\ Truthy(sess[p].target.path))
            => sess[p].target.created = sess[p].target.modified

\* C9 amended: construction sets created = modified = the instant of
\* construction; the flush of the insert sets modified to the instant of the
\* flush and leaves created; the commit stores both.  So created = modified
\* after the creation only when the clock did not advance in between.
C9_ModifiedIsInsertInstant ==
    [][\A p \in Procs :
        /\ Constructs(p)
             => sess'[p].target.created = now /\ sess'[p].target.modified = now
        /\ (Flushes(p) /\ sess[p].op = "insert")
             => /\ sess'[p].target.modified = now
                /\ sess'[p].target.created = sess[p].target.created
        /\ (Commits(p) /\ sess[p].op = "insert")
             => \E b \in binaries' \ binaries :
                   /\ b.created = sess[p].target.created
                   /\ b.modified = sess[p].target.modified]_vars

C9_Witness ==
    \E p \in Procs :
        /\ sess[p].op = "insert" /\ sess[p].pc = "committed"
        /\ Truthy(sess[p].target.path)
        /\ \E b \in binaries : b.id = sess[p].target.id /\ b.created < b.modified

\* C10: a creation that never sets a path is not aborted (the listener reads
\* no file) and its record, in the session and once committed, has a null
\* checksum.
C10_NoPathNullChecksum ==
    \A p \in Procs :
        (sess[p].op = "insert" /\ sess[p].target.path = None)
            => /\ sess[p].pc /= "aborted"
               /\ sess[p].target.checksum = NoneDigest
               /\ sess[p].pc = "committed"
                    => \E b \in binaries :
                          /\ b.id = sess[p].target.id
                          /\ b.path = None /\ b.checksum = NoneDigest

C10_Witness ==
    \E p \in Procs :
        /\ sess[p].op = "insert" /\ sess[p].pc = "committed"
        /\ sess[p].target.path = None
        /\ files["/a"] = Unreadable

\* C11: a write of a record whose path is "" is not aborted by the listeners
\* and commits, and the checksum it stores is the one the record had before
\* the write (None for a new record, the loaded one for an update).
C11_EmptyPathKeepsChecksum ==
    [][\A p \in Procs :
        /\ (sess[p].pc = "checksumming" /\ sess[p].target.path = ""
               /\ sess'[p] /= sess[p])
             => /\ sess'[p].pc = "flushed"
                /\ sess'[p].target.checksum = sess[p].loaded.checksum
        /\ (sess[p].pc = "flushed" /\ sess[p].target.path = ""
               /\ sess'[p] /= sess[p])
             => /\ sess'[p].pc = "committed"
                /\ \E b \in binaries' :
                      /\ b.id = sess'[p].target.id
                      /\ b.path = ""
                      /\ b.checksum = sess[p].loaded.checksum]_vars

C11_Witness ==
    \E p \in Procs :
        /\ sess[p].op = "update" /\ sess[p].pc = "committed"
        /\ sess[p].loaded.path = "/a" /\ sess[p].target.path = ""
        /\ \E b \in binaries : b.path = "" /\ b.checksum = Digest(<<1>>)

\* the allow-list, as the claim gives it
AllowList == {"path", "distro", "distro_version", "arch", "ref", "built_by", "size"}

\* C12: update_from_json leaves every attribute as loaded except those whose
\* key is in the allow-list and in the payload, which take the payload's
\* value; keys outside the allow-list (unknown ones, and name, project,
\* created, ...) are ignored; and the write of the update leaves the row's
\* grouping and adds no Grouping Record, whatever ref or distro became.
C12_OnlyAllowedKeysApplied ==
    [][\A p \in Procs :
        /\ (sess[p].pc = "idle" /\ sess'[p].op = "update")
             => /\ \E b \in binaries : sess'[p].loaded = Load(b)
                /\ \A f \in DOMAIN BinaryColumns :
                      sess'[p].target[f] =
                          IF f \in AllowList /\ f \in DOMAIN sess'[p].data
                          THEN sess'[p].data[f]
                          ELSE sess'[p].loaded[f]
        /\ (Commits(p) /\ sess[p].op = "update")
             => /\ repos' = repos
                /\ \E b \in binaries' :
                      /\ b.id = sess[p].loaded.id
                      /\ b.repo_id = sess[p].loaded.repo.id
                      /\ b.name = sess[p].loaded.name
                      /\ b.project = sess[p].loaded.project
                      /\ b.created = sess[p].loaded.created]_vars

C12_Witness ==
    \E p \in Procs :
        /\ sess[p].op = "update" /\ sess[p].pc = "committed"
        /\ "name" \in DOMAIN sess[p].data /\ "distro" \in DOMAIN sess[p].data
        /\ sess[p].loaded.distro = "ubuntu"
        /\ \E b \in binaries :
              /\ b.id = sess[p].loaded.id
              /\ b.distro = "centos" /\ b.size = 1
              /\ b.name = "ceph.deb" /\ b.project = "P1"
              /\ \E r \in repos : r.id = b.repo_id /\ r.distro = "ubuntu"

\* the keys of the serialization, as the claim gives them
JsonKeys == {"name", "created", "modified", "signed", "size", "path",
             "last_changed", "built_by", "distro", "distro_version",
             "checksum", "arch", "ref"}

\* C13: the serialization of a committed record is a mapping over exactly
\* the thirteen keys; each key but last_changed holds the row's value of that
\* column, and last_changed the rendering of the later of created and
\* modified.
C13_SerializeExactlyThirteen ==
    [][\A p \in Procs :
        (sess[p].pc = "idle" /\ sess'[p].op = "json")
            => \E b \in binaries :
                  /\ sess'[p].loaded = Load(b)
                  /\ DOMAIN sess'[p].out = JsonKeys
                  /\ \A k \in JsonKeys \ {"last_changed"} : sess'[p].out[k] = b[k]
                  /\ sess'[p].out.last_changed =
                        <<"ago", now - (IF b.created >= b.modified
                                        THEN b.created ELSE b.modified)>>]_vars

C13_Witness ==
    \E p \in Procs :
        /\ sess[p].op = "json"
        /\ sess[p].loaded.modified > sess[p].loaded.created
        /\ sess[p].out.checksum = Digest(<<2, 1>>)
        /\ sess[p].out.last_changed = <<"ago", 0>>

\* a session's step into "committed"
EntersCommitted(p) == sess[p].pc /= "committed" /\ sess'[p].pc = "committed"

\* C14 as stated: every committed insert and every committed update leaves
\* modified at the instant of its write: the instant its listeners ran, or,
\* when it commits without them, the instant of the commit.
C14_EveryCommittedWriteStamps ==
    [][\A p \in Procs :
        /\ Flushes(p) => sess'[p].target.modified = now
        /\ EntersCommitted(p)
             => \E b \in binaries' :
                   /\ b.id = sess'[p].target.id
                   /\ b.modified = IF sess[p].pc = "flushed"
                                   THEN sess[p].target.modified
                                   ELSE now]_vars

\* C14 amended: every write that flushes the record, an insert or an update
\* in which update_from_json assigned at least one allow-listed key (be it to
\* the value the record had), sets modified to the instant its listeners run
\* and commits that; an update whose payload holds no allow-listed key
\* flushes nothing and leaves the row, modified included.
C14_EveryFlushStamps ==
    [][\A p \in Procs :
        /\ Flushes(p) => sess'[p].target.modified = now
        /\ Commits(p)
             => \E b \in binaries' :
                   /\ b.id = sess'[p].target.id
                   /\ b.modified = sess[p].target.modified
        /\ (sess[p].pc = "idle" /\ sess'[p].op = "update")
             => sess'[p].dirty = (AllowList \cap DOMAIN sess'[p].data /= {})
        /\ (sess[p].pc = "idle" /\ sess'[p].op = "insert") => sess'[p].dirty
        /\ (sess[p].pc = "pending" /\ sess'[p] /= sess[p])
             => IF sess[p].dirty
                THEN sess'[p].pc = "checksumming"
                ELSE /\ sess'[p].pc = "committed"
                     /\ UNCHANGED <<binaries, repos>>
                     /\ sess'[p].target = sess[p].loaded]_vars

\* an update that assigned the path the record had, after the clock advanced
C14_Witness ==
    \E p \in Procs :
        /\ sess[p].op = "update" /\ sess[p].pc = "committed" /\ sess[p].dirty
        /\ sess[p].data = ("path" :> "/b") /\ sess[p].loaded.path = "/b"
        /\ sess[p].loaded.checksum = sess[p].target.checksum
        /\ \E b \in binaries :
              /\ b.id = sess[p].loaded.id
              /\ b.modified > sess[p].loaded.modified
              /\ b.modified = now

\* the states of a write in the life cycle of spec section 7
Phase(s) ==
    CASE s.pc = "pending" -> "Pending"
      [] s.pc \in {"checksumming", "flushed"} -> "Checksumming"
      [] s.pc = "committed" -> "Committed"
      [] s.pc = "aborted" -> "Aborted"
      [] OTHER -> "None"

\* the steps common to the stated and the amended life cycle: Committed and
\* Aborted are left only by the end of the write, and Pending is entered
\* only by a new write
CycleEnds(p) ==
    /\ (Phase(sess[p]) \in {"Committed", "Aborted"} /\ sess'[p] /= sess[p])
          => sess'[p] = IdleSession
    /\ (Phase(sess'[p]) = "Pending" /\ Phase(sess[p]) /= "Pending")
          => sess[p].pc = "idle"

EveryWriteEnds ==
    \A p \in Procs :
        (Phase(sess[p]) = "Pending")
            ~> (Phase(sess[p]) \in {"Committed", "Aborted"})

\* C15 as stated: each write goes Pending -> Checksumming -> Committed, or
\* Pending -> Checksumming -> Aborted on read failure; every started write
\* reaches Committed or Aborted; Committed is not left within the write; a
\* later update starts from Pending.
C15_WriteCycle ==
    /\ [][\A p \in Procs :
            /\ CycleEnds(p)
            /\ (Phase(sess[p]) = "Pending" /\ sess'[p] /= sess[p])
                  => Phase(sess'[p]) = "Checksumming"
            /\ (Phase(sess[p]) = "Checksumming"
                    /\ Phase(sess'[p]) /= "Checksumming")
                  => \/ Phase(sess'[p]) = "Committed"
                     \/ /\ Phase(sess'[p]) = "Aborted"
                        /\ sess'[p].err = "IOError"]_vars
    /\ EveryWriteEnds

\* C15 amended: a write that flushes the record goes Pending -> Checksumming
\* -> Committed, or to Aborted from Checksumming on a read failure of the
\* file at its path or on the integrity error of the write; an update that
\* assigned nothing goes Pending -> Committed; every started write reaches
\* Committed or Aborted; both are left only by the end of the write, and a
\* later update starts from Pending.
C15_WriteCycleWithSkips ==
    /\ [][\A p \in Procs :
            /\ CycleEnds(p)
            /\ (Phase(sess[p]) = "Pending" /\ sess'[p] /= sess[p])
                  => Phase(sess'[p]) = IF sess[p].dirty THEN "Checksumming"
                                                        ELSE "Committed"
            /\ (Phase(sess[p]) = "Checksumming"
                    /\ Phase(sess'[p]) /= "Checksumming")
                  => \/ Phase(sess'[p]) = "Committed" /\ IntegrityOK(sess[p].target)
                     \/ /\ Phase(sess'[p]) = "Aborted"
                        /\ sess'[p].err = "IOError"
                        /\ sess[p].pc = "checksumming"
                        /\ Truthy(sess[p].target.path)
                        /\ files[sess[p].target.path] = Unreadable
                     \/ /\ Phase(sess'[p]) = "Aborted"
                        /\ sess'[p].err = "IntegrityError"
                        /\ sess[p].pc = "flushed"
                        /\ ~IntegrityOK(sess[p].target)]_vars
    /\ EveryWriteEnds

\* an update started after a committed creation was aborted by a read failure
C15_Witness ==
    \E p \in Procs :
        /\ sess[p].op = "update" /\ sess[p].pc = "aborted"
        /\ sess[p].err = "IOError"
        /\ \E b \in binaries : b.id = sess[p].loaded.id /\ b.checksum /= NoneDigest

\* C16: Grouping Resolution matches on all four of (project, ref, distro,
\* distro_version): the record a creation finds has exactly its tuple (an
\* absent ref finds no record with a ref, and the reverse); committed
\* creations that differ in one component never share a Grouping Record, and
\* the Grouping Record of each has its tuple.
C16_ExactTupleMatch ==
    /\ [][\A p \in Procs :
            (Constructs(p) /\ sess'[p].found /= NoRepo)
               => /\ sess'[p].found \in repos
                  /\ TupleOf(sess'[p].found) = TupleOf(sess'[p].target)]_vars
    /\ [](\A b1, b2 \in binaries :
             /\ TupleOf(b1) /= TupleOf(b2) => b1.repo_id /= b2.repo_id
             /\ \E r \in repos : r.id = b1.repo_id /\ TupleOf(r) = TupleOf(b1))

\* a creation without ref and one with ref "main", otherwise alike, committed
\* under two Grouping Records
C16_Witness ==
    \E b1, b2 \in binaries :
        /\ b1.ref = None /\ b2.ref = "main"
        /\ b1.project = b2.project /\ b1.distro = b2.distro
        /\ b1.distro_version = b2.distro_version
        /\ b1.repo_id /= b2.repo_id
        /\ \E r \in repos : r.id = b2.repo_id /\ r.ref = "main"

\* C17: a creation given a grouping override runs no Grouping Resolution: its
\* grouping is the record given, whatever its tuple, and its commit adds the
\* Artifact Record under that record and no Grouping Record; every committed
\* Artifact Record has exactly one Grouping Record.
C17_OverrideIsTaken ==
    /\ [][\A p \in Procs :
            /\ (Constructs(p) /\ sess'[p].override)
                 => /\ sess'[p].given \in repos
                    /\ sess'[p].target.repo = sess'[p].given
                    /\ sess'[p].found = NoRepo
            /\ (Commits(p) /\ sess[p].op = "insert" /\ sess[p].override)
                 => /\ repos' = repos
                    /\ Cardinality(binaries') = Cardinality(binaries) + 1
                    /\ \A b \in binaries' \ binaries :
                          b.repo_id = sess[p].given.id]_vars
    /\ [](\A b \in binaries :
             Cardinality({r \in repos : r.id = b.repo_id}) = 1)

\* a committed creation whose given grouping has another tuple than its own
C17_Witness ==
    \E p \in Procs :
        /\ sess[p].op = "insert" /\ sess[p].override /\ sess[p].pc = "committed"
        /\ TupleOf(sess[p].given) /= TupleOf(sess[p].target)
        /\ Grouped(sess[p].target) = {}
        /\ \E b \in binaries :
              b.id = sess[p].target.id /\ b.repo_id = sess[p].given.id

\* a Grouping Record is left as it is: no record of its id other than itself
Kept(r) == {x \in repos' : x.id = r.id} = {r}

\* C18: no create or update of an Artifact Record deletes a Grouping Record
\* or changes the (project, ref, distro, distro_version) of one: over every
\* step the set of Grouping Records only grows and each record is kept.
C18_GroupingsOnlyGrow ==
    [][/\ repos \subseteq repos'
       /\ \A r \in repos : Kept(r)]_vars

\* a committed update gave the Artifact Record ref "main" while its Grouping
\* Record keeps the tuple without ref
C18_Witness ==
    \E p \in Procs :
        /\ sess[p].op = "update" /\ sess[p].pc = "committed"
        /\ sess[p].loaded.ref = None
        /\ \E b \in binaries :
              /\ b.id = sess[p].loaded.id /\ b.ref = "main"
              /\ \E r \in repos : r.id = b.repo_id /\ r.ref = None

\* the step in which the listeners of a write run
RunsListeners(p) == sess[p].pc = "checksumming" /\ sess'[p].pc /= "checksumming"

\* C19 as stated: on every write the timestamp is stamped first and the
\* checksum derived second, so that the instance of every write whose
\* listeners ran, the one whose checksum could not be derived included,
\* carries modified = now.
C19_TimestampThenChecksum ==
    [][\A p \in Procs :
          RunsListeners(p) => sess'[p].target.modified = now]_vars

\* C19 amended: on every write the checksum is derived first and the
\* timestamp stamped second: a write whose checksum cannot be derived ends
\* before the timestamp step, its instance keeping the modified and the
\* checksum it had; any other write leaves the derived checksum (or, without
\* a path, the one it had) and modified = now.
C19_ChecksumThenTimestamp ==
    [][\A p \in Procs :
          RunsListeners(p)
            => LET self == sess[p].target
                   failed == Truthy(self.path) /\ files[self.path] = Unreadable
               IN  IF failed
                   THEN /\ sess'[p].pc = "aborted"
                        /\ sess'[p].target.modified = self.modified
                        /\ sess'[p].target.checksum = self.checksum
                   ELSE /\ sess'[p].pc = "flushed"
                        /\ sess'[p].target.modified = now
                        /\ sess'[p].target.checksum =
                              IF Truthy(self.path) THEN Digest(files[self.path])
                                                   ELSE self.checksum]_vars

\* a creation aborted by the read failure after the clock advanced: its
\* instance still has the modified of its construction
C19_Witness ==
    \E p \in Procs :
        /\ sess[p].op = "insert" /\ sess[p].pc = "aborted"
        /\ sess[p].err = "IOError"
        /\ sess[p].target.modified = sess[p].target.created
        /\ sess[p].target.modified < now

====
